---- MODULE Spec2Model ----
(***************************************************************************)
(* Model of the retrieval-augmentation core of the voice agent:            *)
(* RAGContextProcessor (src/processors/rag_processor.py), LanceDBRetriever *)
(* (src/rag/retriever.py), the ingestion script                            *)
(* (src/scripts/ingest_documents.py) and the processor chain of bot.main   *)
(* (src/bot.py).                                                           *)
(*                                                                         *)
(* Python strings are TLA+ strings (TLC evaluates Len, SubSeq and \o on    *)
(* them).  An Optional[str] is a sequence of length at most one: None is   *)
(* <<>> and a string s is <<s>>.  A message is a record with the keys      *)
(* role and content; a frame is a record that carries an identity, so      *)
(* that "the same frame object" and "a new frame" can be told apart.       *)
(***************************************************************************)
EXTENDS Integers, Sequences, FiniteSets, TLC

VARIABLES
    strategy,          \* RAGContextProcessor._strategy
    min_query_length,  \* RAGContextProcessor._min_query_length
    last_context,      \* RAGContextProcessor._last_context (Optional[str])
    log,               \* history: one entry per process_frame invocation
    mIn,               \* merge harness: message list given to a strategy
    mOut,              \* merge harness: list returned by the strategy
    mOp,               \* merge harness: which strategy was applied
    table,             \* LanceDBRetriever._table (Optional): the rows of the table
    match_count,       \* LanceDBRetriever._match_count
    match_threshold,   \* LanceDBRetriever._match_threshold
    rcall,             \* the latest call made on the retriever and what it did
    added,             \* sum of the values add_documents has returned
    cText,             \* split_into_chunks: the text argument
    cMax,              \* split_into_chunks: the max_chars argument
    cOut,              \* split_into_chunks: the returned list (Optional)
    ingest,            \* one run of scripts/ingest_documents.py
    pipeline,          \* the processor chain of bot.main and what reached the LLM
    tasks,             \* process_frame coroutines in flight on one injector
    heap               \* message lists and message dicts as Python objects

\* the state of the retriever, and the arguments and result of the splitter
rvars == <<table, match_count, match_threshold, rcall, added>>
cvars == <<cText, cMax, cOut>>
xvars == <<ingest, pipeline, tasks, heap>>

vars == <<strategy, min_query_length, last_context, log, mIn, mOut, mOp, rvars, cvars, xvars>>

-----------------------------------------------------------------------------
(* Bounds *)

MaxEvents == 3     \* frames handed to one injector in a behaviour
MaxHits == 2       \* length of a list returned by retrieve_sync
MaxMsgs == 3       \* length of a message list given to a merge strategy

-----------------------------------------------------------------------------
(* Python values *)

None == <<>>
Some(s) == <<s>>

\* Python truthiness of an Optional[str]: None and "" are falsy
Truthy(opt) == opt # None /\ opt[1] # ""

Whitespace == {" ", "\n", "\t"}

RECURSIVE lstrip(_)
lstrip(s) ==
    IF Len(s) = 0 THEN s
    ELSE IF SubSeq(s, 1, 1) \in Whitespace THEN lstrip(SubSeq(s, 2, Len(s)))
    ELSE s

RECURSIVE rstrip(_)
rstrip(s) ==
    IF Len(s) = 0 THEN s
    ELSE IF SubSeq(s, Len(s), Len(s)) \in Whitespace
         THEN rstrip(SubSeq(s, 1, Len(s) - 1))
    ELSE s

\* str.strip()
strip(s) == rstrip(lstrip(s))

\* sep.join(parts)
RECURSIVE join(_, _)
join(sep, parts) ==
    IF Len(parts) = 0 THEN ""
    ELSE IF Len(parts) = 1 THEN parts[1]
    ELSE parts[1] \o sep \o join(sep, Tail(parts))

\* list.insert(idx, x) for 0 <= idx <= len(list), 0-based idx
Insert(list, idx, x) ==
    SubSeq(list, 1, idx) \o <<x>> \o SubSeq(list, idx + 1, Len(list))

\* t occurs in s as a substring
Contains(s, t) ==
    \E i \in 1..(Len(s) - Len(t) + 1) : SubSeq(s, i, i + Len(t) - 1) = t

-----------------------------------------------------------------------------
(* LanceDBRetriever.format_context *)

LeadIn == "Relevant information about me:"

\* variant: the entries are numbered from 0
format_context_from_zero(documents) ==
    IF Len(documents) = 0 THEN ""
    ELSE LET context_parts ==
                 <<LeadIn>> \o
                 [i \in 1..Len(documents) |->
                     "\n[" \o ToString(i - 1) \o "] " \o documents[i].content]
         IN  join("\n", context_parts)

format_context(documents) ==
    IF Len(documents) = 0 THEN ""
    ELSE LET context_parts ==
                 <<LeadIn>> \o
                 [i \in 1..Len(documents) |->
                     "\n[" \o ToString(i) \o "] " \o documents[i].content]
         IN  join("\n", context_parts)

-----------------------------------------------------------------------------
(* Messages and the two merge strategies *)

Roles == {"system", "user", "assistant"}

Message(role, content) == [role |-> role, content |-> content]

\* RAGContextProcessor._augment_system_message: the for loop, from index i on
RECURSIVE AugmentLoop(_, _, _, _, _)
AugmentLoop(messages, ctx, i, augmented, system_found) ==
    IF i > Len(messages) THEN [augmented |-> augmented, system_found |-> system_found]
    ELSE LET msg == messages[i] IN
         IF msg.role = "system" /\ ~system_found
         THEN LET original_content == msg.content
                  augmented_content == original_content \o "\n\n" \o ctx
              IN  AugmentLoop(messages, ctx, i + 1,
                      Append(augmented, [msg EXCEPT !.content = augmented_content]),
                      TRUE)
         ELSE AugmentLoop(messages, ctx, i + 1, Append(augmented, msg), system_found)

\* variant: every system-role message is augmented, not only the first
_augment_system_message_every(messages, ctx) ==
    IF \A x \in 1..Len(messages) : messages[x].role # "system"
    THEN Insert(messages, 0, Message("system", ctx))
    ELSE [x \in 1..Len(messages) |->
             IF messages[x].role = "system"
             THEN [messages[x] EXCEPT !.content = @ \o "\n\n" \o ctx]
             ELSE messages[x]]

\* variant: without system-role message the new one is appended
_augment_system_message_appends(messages, ctx) ==
    LET r == AugmentLoop(messages, ctx, 1, <<>>, FALSE) IN
    IF ~r.system_found
    THEN Append(r.augmented, Message("system", ctx))
    ELSE r.augmented

_augment_system_message(messages, ctx) ==
    LET r == AugmentLoop(messages, ctx, 1, <<>>, FALSE) IN
    IF ~r.system_found
    THEN Insert(r.augmented, 0, Message("system", ctx))
    ELSE r.augmented

\* RAGContextProcessor._inject_context_message: the for loop over
\* enumerate(messages); i is the 1-based position, so Python's index is i - 1
RECURSIVE InsertIdxLoop(_, _, _)
InsertIdxLoop(messages, i, insert_idx) ==
    IF i > Len(messages) THEN insert_idx
    ELSE IF messages[i].role = "system" THEN InsertIdxLoop(messages, i + 1, (i - 1) + 1)
    ELSE IF messages[i].role = "user" THEN insert_idx
    ELSE InsertIdxLoop(messages, i + 1, insert_idx)

\* variant: the scan does not stop at the first user-role message
InsertIdxNoBreak(messages) ==
    LET sys == {x \in 1..Len(messages) : messages[x].role = "system"}
    IN  IF sys = {} THEN 0 ELSE CHOOSE x \in sys : \A y \in sys : y <= x

InsertIdx(messages) == InsertIdxLoop(messages, 1, 0)

ContextTag == "[Retrieved Context]\n"

\* variant: the context message overwrites the message at the insertion index
_inject_context_message_replaces(messages, ctx) ==
    LET context_message == Message("system", ContextTag \o ctx)
        idx == InsertIdx(messages)
    IN  SubSeq(messages, 1, idx) \o <<context_message>>
            \o SubSeq(messages, idx + 2, Len(messages))

_inject_context_message(messages, ctx) ==
    LET context_message == Message("system", ContextTag \o ctx)
    IN  Insert(messages, InsertIdx(messages), context_message)

-----------------------------------------------------------------------------
(* Frames, directions and the inputs of the model *)

DOWNSTREAM == "DOWNSTREAM"
UPSTREAM == "UPSTREAM"
Directions == {DOWNSTREAM, UPSTREAM}

\* the two documented strategy values, and one the constructor also accepts
AUGMENT_SYSTEM == "AUGMENT_SYSTEM"
INJECT_CONTEXT == "INJECT_CONTEXT"
Strategies == {AUGMENT_SYSTEM, INJECT_CONTEXT}
OtherStrategy == "augment_system"

\* min_query_length: the constructor default and the default of bot.py
MinQueryLengths == {10, 8}

TranscriptionFrame(id, text) ==
    [id |-> id, type |-> "TranscriptionFrame", text |-> text, messages |-> <<>>]
LLMMessagesFrame(id, messages) ==
    [id |-> id, type |-> "LLMMessagesFrame", text |-> "", messages |-> messages]
TextFrame(id, text) ==
    [id |-> id, type |-> "TextFrame", text |-> text, messages |-> <<>>]

\* transcripts: trimmed lengths 5 (raw length 10), 9 and 11
Texts == {"  hello \n\t", "about foo", "what is bar"}

\* the documents of the knowledge base, in the order the store ranks them
DocContent(i) == IF i = 1 THEN "foo" ELSE IF i = 2 THEN "bar" ELSE "baz" \o ToString(i)
DocRanking ==
    [i \in 1..MaxHits |-> [id |-> "doc_" \o ToString(i - 1), content |-> DocContent(i)]]

\* the elements of list at the positions in S, in the order of list
RECURSIVE Pick(_, _)
Pick(list, S) ==
    IF Len(list) = 0 THEN <<>>
    ELSE LET front == Pick(SubSeq(list, 1, Len(list) - 1), S)
         IN  IF Len(list) \in S THEN Append(front, list[Len(list)]) ELSE front

RECURSIVE SeqsUpTo(_, _)
SeqsUpTo(S, n) ==
    IF n = 0 THEN {<<>>}
    ELSE LET shorter == SeqsUpTo(S, n - 1)
         IN  shorter \cup {Append(q, x) : q \in shorter, x \in S}

\* lists retrieve_sync may return: rows of the ranking that pass the threshold
HitLists == {Pick(DocRanking, S) : S \in SUBSET (1..MaxHits)}

\* what a call of retriever.retrieve_sync(text) does: return a list or raise
Returns(documents) == [kind |-> "return", documents |-> documents]
Raises == [kind |-> "raise", documents |-> <<>>]
NoCall == [kind |-> "nocall", documents |-> <<>>]
RetrieveOutcomes == {Returns(h) : h \in HitLists} \cup {Raises}

\* message lists carried by the LLMMessagesFrames of the pipeline
FrameMessageLists ==
    { <<>>,
      <<Message("user", "hi")>>,
      <<Message("assistant", "ok"), Message("system", "Be nice."),
        Message("user", "hi")>> }

IncomingFrames(id) ==
    {TranscriptionFrame(id, t) : t \in Texts}
    \cup {LLMMessagesFrame(id, m) : m \in FrameMessageLists}
    \cup {TextFrame(id, "hello")}

\* frames travelling upstream: one of each kind
UpstreamFrames(id) ==
    { TranscriptionFrame(id, "what is bar"),
      LLMMessagesFrame(id, <<Message("user", "hi")>>),
      TextFrame(id, "hello") }

\* message lists and contexts for the merge strategies taken on their own
MessageContents == {"Be nice.", "hi"}
MessageLists ==
    SeqsUpTo({Message(r, c) : r \in Roles, c \in MessageContents}, MaxMsgs)
Contexts == {format_context(h) : h \in HitLists \ {<<>>}}

-----------------------------------------------------------------------------
(* LanceDBRetriever: the table, add_documents, document_count, retrieve_sync *)

MaxRows == 3       \* rows a table may hold
MaxBatch == 2      \* documents in one add_documents call

\* a Python float, kept as an exact fraction with a positive denominator
Rat(n, d) == [num |-> n, den |-> d]
RatGeq(a, b) == a.num * b.den >= b.num * a.den
RatGt(a, b) == a.num * b.den > b.num * a.den

\* x or y, for an Optional int and an Optional float x: None and 0 are falsy
OrInt(x, y) == IF x = None \/ x[1] = 0 THEN y ELSE x[1]
OrFloat(x, y) == IF x = None \/ x[1].num = 0 THEN y ELSE x[1]

\* the embedding of a text, as a vector of one dimension
EmbedVector(t) ==
    IF t = "foo" THEN 0
    ELSE IF t = "bar" THEN 1
    ELSE IF t = "about foo" THEN 0
    ELSE 2

\* the distance the store reports between two vectors (L2)
Distance(u, v) == (u - v) * (u - v)

\* a document dict given to add_documents: the key id may be missing
Document(id, content) == [id |-> id, content |-> content]
DocumentIds == {None, Some("doc_1")}
Documents == {Document(i, c) : i \in DocumentIds, c \in {"foo", "bar"}}
Batches == SeqsUpTo(Documents, MaxBatch)

\* the query texts, and the per-call overrides of retrieve_sync
Queries == {"about foo", "what is bar"}
MatchCountArgs == {None, Some(0), Some(1), Some(2)}
MatchThresholdArgs == {None, Some(Rat(0, 1)), Some(Rat(1, 2))}

\* DEFAULT_MATCH_COUNT; DEFAULT_MATCH_THRESHOLD and the default of bot.py
DEFAULT_MATCH_COUNT == 3
MatchThresholds == {Rat(7, 10), Rat(1, 2)}

\* add_documents: the record built for documents[i] (i is 1-based here, the
\* enumerate index is i - 1)
Record(doc, i) ==
    [id |-> IF doc.id = None THEN "doc_" \o ToString(i - 1) ELSE doc.id[1],
     content |-> doc.content,
     vector |-> EmbedVector(doc.content)]

Records(documents) == [i \in 1..Len(documents) |-> Record(documents[i], i)]

\* document_count
document_count == IF table = None THEN 0 ELSE Len(table[1])

\* the latest call: what was asked and what came of it
\* (absent: the table was None when add_documents was called; failure: which
\* of embed_text and the store search raised, if any)
AddCall(documents, absent, result) ==
    [op |-> "add_documents", documents |-> documents, absent |-> absent,
     result |-> result]
RetrieveCall(query, mc, mt, failure, embeds, searches, limit, threshold, rows, result) ==
    [op |-> "retrieve_sync", query |-> query, match_count |-> mc,
     match_threshold |-> mt, failure |-> failure, embeds |-> embeds,
     searches |-> searches, limit |-> limit, threshold |-> threshold, rows |-> rows,
     result |-> result]
NoRetrieverCall == [op |-> "none"]

\* __init__: what the constructor found at the location: no table of that
\* name, or a table whose opening (or the listing of the tables) raised
StoreStates == {"absent", "unopenable"}
Constructed(store) == [op |-> "__init__", store |-> store]

\* format_context(documents) and the string it returned
FormatCall(documents, result) ==
    [op |-> "format_context", documents |-> documents, result |-> result]

Returned(v) == [kind |-> "return", value |-> v]
Raised == [kind |-> "raise", value |-> <<>>]

\* variant: the batch replaces the rows of the table instead of joining them
add_documents_replaces(documents, embedOk) ==
    /\ Len(documents) + document_count <= MaxRows
    /\ IF Len(documents) = 0
       THEN /\ rcall' = AddCall(documents, table = None, Returned(0))
            /\ UNCHANGED <<table, added>>
       ELSE IF ~embedOk
       THEN /\ rcall' = AddCall(documents, table = None, Raised)
            /\ UNCHANGED <<table, added>>
       ELSE LET records == Records(documents) IN
            /\ table' = IF table = None THEN Some(records) ELSE Some(records)
            /\ rcall' = AddCall(documents, table = None, Returned(Len(records)))
            /\ added' = added + Len(records)
    /\ UNCHANGED <<match_count, match_threshold>>

\* add_documents(documents); embedOk tells whether embed_documents returns
add_documents(documents, embedOk) ==
    /\ Len(documents) + document_count <= MaxRows
    /\ IF Len(documents) = 0
       THEN /\ rcall' = AddCall(documents, table = None, Returned(0))
            /\ UNCHANGED <<table, added>>
       ELSE IF ~embedOk
       THEN /\ rcall' = AddCall(documents, table = None, Raised)
            /\ UNCHANGED <<table, added>>
       ELSE LET records == Records(documents) IN
            /\ table' = IF table = None THEN Some(records) ELSE Some(table[1] \o records)
            /\ rcall' = AddCall(documents, table = None, Returned(Len(records)))
            /\ added' = added + Len(records)
    /\ UNCHANGED <<match_count, match_threshold>>

\* the store: rows in ascending distance from the query vector; rows at the
\* same distance keep their order in the table
RECURSIVE InsertByDistance(_, _)
InsertByDistance(sorted, row) ==
    IF Len(sorted) = 0 THEN <<row>>
    ELSE IF sorted[Len(sorted)]._distance <= row._distance THEN Append(sorted, row)
    ELSE Append(InsertByDistance(SubSeq(sorted, 1, Len(sorted) - 1), row),
                sorted[Len(sorted)])

RECURSIVE SortByDistance(_, _)
SortByDistance(rows, q) ==
    IF Len(rows) = 0 THEN <<>>
    ELSE LET last == rows[Len(rows)]
             row == [id |-> last.id, content |-> last.content,
                     _distance |-> Distance(last.vector, q)]
         IN  InsertByDistance(SortByDistance(SubSeq(rows, 1, Len(rows) - 1), q), row)

\* self._table.search(query_embedding).limit(limit).to_list()
Search(rows, q, limit) ==
    LET sorted == SortByDistance(rows, q)
    IN  SubSeq(sorted, 1, IF limit < Len(sorted) THEN limit ELSE Len(sorted))

\* retrieve_sync: similarity = 1 / (1 + distance)
Similarity(distance) == Rat(1, 1 + distance)

RetrievedDocument(row) ==
    [id |-> row.id, content |-> row.content, similarity |-> Similarity(row._distance)]

\* variant: the comparison with the threshold is strict
RECURSIVE FilterRowsStrict(_, _)
FilterRowsStrict(results, threshold) ==
    IF Len(results) = 0 THEN <<>>
    ELSE LET row == results[1]
             similarity == Similarity(row._distance)
             rest == FilterRowsStrict(Tail(results), threshold)
         IN  IF RatGt(similarity, threshold)
             THEN <<RetrievedDocument(row)>> \o rest
             ELSE rest

\* variant: each kept row is put at the front of the list
RECURSIVE FilterRowsPrepends(_, _)
FilterRowsPrepends(results, threshold) ==
    IF Len(results) = 0 THEN <<>>
    ELSE LET row == results[1]
             similarity == Similarity(row._distance)
             rest == FilterRowsPrepends(Tail(results), threshold)
         IN  IF RatGeq(similarity, threshold)
             THEN Append(rest, RetrievedDocument(row))
             ELSE rest

\* retrieve_sync: the loop that filters by threshold
RECURSIVE FilterRows(_, _)
FilterRows(results, threshold) ==
    IF Len(results) = 0 THEN <<>>
    ELSE LET row == results[1]
             similarity == Similarity(row._distance)
             rest == FilterRows(Tail(results), threshold)
         IN  IF RatGeq(similarity, threshold)
             THEN <<RetrievedDocument(row)>> \o rest
             ELSE rest

\* variant: embed_text is called outside the try block
retrieve_sync_embeds_outside_try(query, mc, mt, embedOk, searchOk) ==
    /\ IF table = None
       THEN rcall' = RetrieveCall(query, mc, mt, "none", 0, 0, 0, Rat(0, 1), <<>>,
                                  Returned(<<>>))
       ELSE IF ~embedOk
       THEN rcall' = RetrieveCall(query, mc, mt, "embed", 1, 0, 0, Rat(0, 1), <<>>,
                                  Raised)
       ELSE LET query_embedding == EmbedVector(query)
                limit == OrInt(mc, match_count)
            IN  IF ~searchOk
                THEN rcall' = RetrieveCall(query, mc, mt, "search", 1, 1, limit,
                                           Rat(0, 1), <<>>, Returned(<<>>))
                ELSE LET results == Search(table[1], query_embedding, limit)
                         threshold == OrFloat(mt, match_threshold)
                         documents == FilterRows(results, threshold)
                     IN  rcall' = RetrieveCall(query, mc, mt, "none", 1, 1, limit,
                                               threshold, results, Returned(documents))
    /\ UNCHANGED <<table, match_count, match_threshold, added>>

\* variant: retrieve_sync without the test for a missing table
retrieve_sync_no_table_check(query, mc, mt, embedOk, searchOk) ==
    /\ IF ~embedOk
       THEN rcall' = RetrieveCall(query, mc, mt, "embed", 1, 0, 0, Rat(0, 1), <<>>,
                                  Returned(<<>>))
       ELSE LET query_embedding == EmbedVector(query)
                limit == OrInt(mc, match_count)
            IN  IF table = None
                THEN rcall' = RetrieveCall(query, mc, mt, "search", 1, 0, limit,
                                           Rat(0, 1), <<>>, Returned(<<>>))
                ELSE IF ~searchOk
                THEN rcall' = RetrieveCall(query, mc, mt, "search", 1, 1, limit,
                                           Rat(0, 1), <<>>, Returned(<<>>))
                ELSE LET results == Search(table[1], query_embedding, limit)
                         threshold == OrFloat(mt, match_threshold)
                         documents == FilterRows(results, threshold)
                     IN  rcall' = RetrieveCall(query, mc, mt, "none", 1, 1, limit,
                                               threshold, results, Returned(documents))
    /\ UNCHANGED <<table, match_count, match_threshold, added>>

\* retrieve_sync(query, match_count, match_threshold); embedOk and searchOk
\* tell whether embed_text and the store search return or raise
retrieve_sync(query, mc, mt, embedOk, searchOk) ==
    /\ IF table = None
       THEN rcall' = RetrieveCall(query, mc, mt, "none", 0, 0, 0, Rat(0, 1), <<>>,
                                  Returned(<<>>))
       ELSE IF ~embedOk
       THEN rcall' = RetrieveCall(query, mc, mt, "embed", 1, 0, 0, Rat(0, 1), <<>>,
                                  Returned(<<>>))
       ELSE LET query_embedding == EmbedVector(query)
                limit == OrInt(mc, match_count)
            IN  IF ~searchOk
                THEN rcall' = RetrieveCall(query, mc, mt, "search", 1, 1, limit,
                                           Rat(0, 1), <<>>, Returned(<<>>))
                ELSE LET results == Search(table[1], query_embedding, limit)
                         threshold == OrFloat(mt, match_threshold)
                         documents == FilterRows(results, threshold)
                     IN  rcall' = RetrieveCall(query, mc, mt, "none", 1, 1, limit,
                                               threshold, results, Returned(documents))
    /\ UNCHANGED <<table, match_count, match_threshold, added>>

\* the retriever is not used
RetrieverUnused ==
    /\ table = None
    /\ match_count = DEFAULT_MATCH_COUNT
    /\ match_threshold = Rat(7, 10)
    /\ rcall = NoRetrieverCall
    /\ added = 0

\* the splitter is not used
SplitterUnused ==
    /\ cText = ""
    /\ cMax = 0
    /\ cOut = None

\* no ingestion run, no pipeline, no coroutine, no object
IngestUnused == ingest = None
PipelineUnused == pipeline = None
TasksUnused == tasks = None
HeapUnused == heap = None
OthersUnused == IngestUnused /\ PipelineUnused /\ TasksUnused /\ HeapUnused

\* LanceDBRetriever.__init__ on a location whose table is missing or cannot
\* be opened: the except branch logs and _table stays None
InitRetriever ==
    /\ strategy = AUGMENT_SYSTEM
    /\ min_query_length = 10
    /\ last_context = None
    /\ log = <<>>
    /\ mIn = <<>>
    /\ mOut = <<>>
    /\ mOp = "none"
    /\ table = None
    /\ match_count = DEFAULT_MATCH_COUNT
    /\ match_threshold \in MatchThresholds
    /\ rcall \in {Constructed(store) : store \in StoreStates}
    /\ added = 0
    /\ SplitterUnused
    /\ OthersUnused

AddDocuments ==
    /\ \E documents \in Batches, embedOk \in BOOLEAN : add_documents(documents, embedOk)
    /\ UNCHANGED <<strategy, min_query_length, last_context, log, mIn, mOut, mOp, cvars, xvars>>

RetrieveSync ==
    /\ \E query \in Queries, mc \in MatchCountArgs, mt \in MatchThresholdArgs,
          embedOk \in BOOLEAN, searchOk \in BOOLEAN :
          retrieve_sync(query, mc, mt, embedOk, searchOk)
    /\ UNCHANGED <<strategy, min_query_length, last_context, log, mIn, mOut, mOp, cvars, xvars>>

\* format_context applied to the list the latest retrieve_sync returned
FormatContext ==
    /\ rcall.op = "retrieve_sync"
    /\ rcall.result.kind = "return"
    /\ rcall' = FormatCall(rcall.result.value, format_context(rcall.result.value))
    /\ UNCHANGED <<strategy, min_query_length, last_context, log, mIn, mOut, mOp,
                   table, match_count, match_threshold, added, cvars, xvars>>

NextRetriever == AddDocuments \/ RetrieveSync \/ FormatContext

SpecRetriever == InitRetriever /\ [][NextRetriever]_vars

-----------------------------------------------------------------------------
(* scripts/ingest_documents.py: split_into_chunks *)

MaxTextLen == 7    \* length of a text given to split_into_chunks

Alphabet == {"a", "b", " ", "\n"}

RECURSIVE StringsUpTo(_)
StringsUpTo(n) ==
    IF n = 0 THEN {""}
    ELSE LET shorter == StringsUpTo(n - 1)
         IN  shorter \cup {t \o c : t \in shorter, c \in Alphabet}

\* values of the max_chars argument
MaxCharsValues == {2, 4}

\* text.split("\n\n") from position i on, cur being the piece read so far
RECURSIVE SplitLoop(_, _, _)
SplitLoop(t, i, cur) ==
    IF i > Len(t) THEN <<cur>>
    ELSE IF i < Len(t) /\ SubSeq(t, i, i + 1) = "\n\n"
         THEN <<cur>> \o SplitLoop(t, i + 2, "")
    ELSE SplitLoop(t, i + 1, cur \o SubSeq(t, i, i))

SplitParagraphs(t) == SplitLoop(t, 1, "")

\* variant: the chunk in progress when the paragraphs run out is not appended
RECURSIVE ChunkLoopDropsLast(_, _, _, _, _)
ChunkLoopDropsLast(paragraphs, i, chunks, current_chunk, max_chars) ==
    IF i > Len(paragraphs)
    THEN chunks
    ELSE LET para == strip(paragraphs[i]) IN
         IF para = "" THEN ChunkLoopDropsLast(paragraphs, i + 1, chunks, current_chunk, max_chars)
         ELSE IF Len(current_chunk) + Len(para) + 2 > max_chars
         THEN ChunkLoopDropsLast(paragraphs, i + 1,
                  IF current_chunk # "" THEN Append(chunks, strip(current_chunk))
                  ELSE chunks,
                  para, max_chars)
         ELSE ChunkLoopDropsLast(paragraphs, i + 1, chunks,
                  IF current_chunk # "" THEN current_chunk \o "\n\n" \o para ELSE para,
                  max_chars)

\* split_into_chunks: the for loop over paragraphs, from paragraph i on
RECURSIVE ChunkLoop(_, _, _, _, _)
ChunkLoop(paragraphs, i, chunks, current_chunk, max_chars) ==
    IF i > Len(paragraphs)
    THEN IF current_chunk # "" THEN Append(chunks, strip(current_chunk)) ELSE chunks
    ELSE LET para == strip(paragraphs[i]) IN
         IF para = "" THEN ChunkLoop(paragraphs, i + 1, chunks, current_chunk, max_chars)
         ELSE IF Len(current_chunk) + Len(para) + 2 > max_chars
         THEN ChunkLoop(paragraphs, i + 1,
                  IF current_chunk # "" THEN Append(chunks, strip(current_chunk))
                  ELSE chunks,
                  para, max_chars)
         ELSE ChunkLoop(paragraphs, i + 1, chunks,
                  IF current_chunk # "" THEN current_chunk \o "\n\n" \o para ELSE para,
                  max_chars)

split_into_chunks(t, max_chars) ==
    IF Len(t) <= max_chars THEN <<strip(t)>>
    ELSE LET chunks == ChunkLoop(SplitParagraphs(t), 1, <<>>, "", max_chars)
         IN  IF Len(chunks) > 0 THEN chunks ELSE <<SubSeq(t, 1, max_chars)>>

InitSplit ==
    /\ strategy = AUGMENT_SYSTEM
    /\ min_query_length = 10
    /\ last_context = None
    /\ log = <<>>
    /\ mIn = <<>>
    /\ mOut = <<>>
    /\ mOp = "none"
    /\ RetrieverUnused
    /\ cText \in StringsUpTo(MaxTextLen)
    /\ cMax \in MaxCharsValues
    /\ cOut = None
    /\ OthersUnused

SplitIntoChunks ==
    /\ cOut = None
    /\ cOut' = Some(split_into_chunks(cText, cMax))
    /\ UNCHANGED <<strategy, min_query_length, last_context, log, mIn, mOut, mOp,
                   rvars, cText, cMax, xvars>>

NextSplit == SplitIntoChunks

SpecSplit == InitSplit /\ [][NextSplit]_vars

-----------------------------------------------------------------------------
(* scripts/ingest_documents.py: read_markdown_files, main and the script *)

MaxFiles == 2      \* entries of the source directory that match the pattern

\* an entry matched by the pattern: a regular file whose text can be read, a
\* regular file whose read_text raises, or something that is not a file
FileKinds == {"file", "unreadable", "directory"}
FileStems == {"x", "y", "z"}
FileContents == {"", " \n", "ab", "a\n\nb\n\na"}

File(stem, content, kind) ==
    [stem |-> stem, name |-> stem \o ".md", content |-> content, kind |-> kind]

Files == {File(st, c, k) : st \in FileStems, c \in FileContents, k \in FileKinds}

\* the entries of one directory have distinct names
DistinctNames(files) ==
    \A i, j \in 1..Len(files) : i # j => files[i].name # files[j].name

\* the source directory: None when it does not exist, else what glob yields
Directories ==
    {None} \cup {Some(files) : files \in {l \in SeqsUpTo(Files, MaxFiles) : DistinctNames(l)}}

\* variant: the index is always appended to the stem
DocIdAlwaysIndexed(stem, i, total) == stem \o "_" \o ToString(i)

\* doc_id of chunk i (from 0) of a file with total chunks
DocId(stem, i, total) ==
    IF total > 1 THEN stem \o "_" \o ToString(i) ELSE stem

\* read_markdown_files: the documents appended for one entry of the glob;
\* max_chars is the budget handed to split_into_chunks
FileDocuments(file, max_chars) ==
    IF file.kind # "file" THEN <<>>
    ELSE IF strip(file.content) = "" THEN <<>>
    ELSE LET chunks == split_into_chunks(file.content, max_chars)
         IN  [i \in 1..Len(chunks) |->
                 [id |-> DocId(file.stem, i - 1, Len(chunks)),
                  content |-> chunks[i],
                  metadata |-> [source |-> file.name,
                                chunk_index |-> i - 1,
                                total_chunks |-> Len(chunks)]]]

RECURSIVE ReadLoop(_, _, _)
ReadLoop(files, i, max_chars) ==
    IF i > Len(files) THEN <<>>
    ELSE FileDocuments(files[i], max_chars) \o ReadLoop(files, i + 1, max_chars)

read_markdown_files(directory, max_chars) ==
    IF directory = None THEN <<>> ELSE ReadLoop(directory[1], 1, max_chars)

\* the names each module of the rag package defines, and the names the
\* script imports from them when it is loaded
ModuleNames(module) ==
    IF module = "rag.embeddings" THEN {"GoogleEmbeddings"}
    ELSE IF module = "rag.retriever"
    THEN {"RetrievedDocument", "LanceDBRetriever", "SupabaseRAGRetriever"}
    ELSE {}

ScriptImports ==
    <<[module |-> "rag.embeddings", name |-> "LocalEmbeddings"],
      [module |-> "rag.retriever", name |-> "LanceDBRetriever"]>>

ImportsResolve ==
    \A i \in 1..Len(ScriptImports) :
        ScriptImports[i].name \in ModuleNames(ScriptImports[i].module)

\* what a run has done when the process ends
Exited(run, documents, output_exists, exit, embeds, appends) ==
    [run EXCEPT !.pc = "exited", !.documents = Some(documents),
                !.output_exists = output_exists, !.exit = Some(exit),
                !.embeds = embeds, !.appends = appends]

\* main(): embedOk tells whether embed_documents returns
main(run, embedOk) ==
    LET documents == read_markdown_files(run.dir, run.max_chars) IN
    IF Len(documents) = 0
    THEN Exited(run, documents, TRUE, 0, 0, 0)
    ELSE IF embedOk
         THEN Exited(run, documents, TRUE, 0, 1, 1)
         ELSE Exited(run, documents, TRUE, 1, 1, 0)

\* python scripts/ingest_documents.py: the module is loaded (its imports
\* run), then main() is called; an import that fails ends the process with
\* status 1 before main() is reached
RunScriptResult(run, embedOk) ==
    IF ImportsResolve
    THEN main(run, embedOk)
    ELSE [run EXCEPT !.pc = "exited", !.exit = Some(1)]

InitIngest ==
    /\ strategy = AUGMENT_SYSTEM
    /\ min_query_length = 10
    /\ last_context = None
    /\ log = <<>>
    /\ mIn = <<>>
    /\ mOut = <<>>
    /\ mOp = "none"
    /\ RetrieverUnused
    /\ SplitterUnused
    /\ PipelineUnused
    /\ TasksUnused
    /\ HeapUnused
    /\ \E dir \in Directories, max_chars \in MaxCharsValues :
          ingest = [pc |-> "ready", dir |-> dir, max_chars |-> max_chars,
                    documents |-> None, output_exists |-> FALSE, exit |-> None,
                    embeds |-> 0, appends |-> 0]

ReadMarkdownFiles ==
    /\ ingest.pc = "ready"
    /\ ingest' = [ingest EXCEPT !.pc = "read",
                     !.documents = Some(read_markdown_files(ingest.dir, ingest.max_chars))]
    /\ UNCHANGED <<strategy, min_query_length, last_context, log, mIn, mOut, mOp,
                   rvars, cvars, pipeline, tasks, heap>>

RunScript ==
    /\ ingest.pc = "ready"
    /\ \E embedOk \in BOOLEAN : ingest' = RunScriptResult(ingest, embedOk)
    /\ UNCHANGED <<strategy, min_query_length, last_context, log, mIn, mOut, mOp,
                   rvars, cvars, pipeline, tasks, heap>>

NextIngest == ReadMarkdownFiles \/ RunScript

SpecIngest == InitIngest /\ [][NextIngest]_vars

-----------------------------------------------------------------------------
(* RAGContextProcessor *)

\* one push_frame call: the frame, its direction, and the value of
\* _last_context at the moment of the call
Push(frame, direction, ctx) == [frame |-> frame, direction |-> direction, ctx |-> ctx]

\* one process_frame invocation, as recorded in the history
Entry(frame, direction, queries, outcome, before, after, pushed) ==
    [frame |-> frame, direction |-> direction, queries |-> queries,
     outcome |-> outcome, before |-> before, after |-> after, pushed |-> pushed]

\* variant: the direction is not tested, an upstream LLMMessagesFrame is merged
PushUpstreamMerges(frame, direction) ==
    /\ direction # DOWNSTREAM
    /\ IF frame.type = "LLMMessagesFrame" /\ Truthy(last_context)
       THEN /\ last_context' = None
            /\ log' = Append(log, Entry(frame, direction, <<>>, NoCall, last_context, None,
                   <<Push(LLMMessagesFrame(0 - frame.id,
                              _augment_system_message(frame.messages, last_context[1])),
                          direction, None)>>))
       ELSE /\ last_context' = last_context
            /\ log' = Append(log, Entry(frame, direction, <<>>, NoCall, last_context,
                                 last_context, <<Push(frame, direction, last_context)>>))
    /\ UNCHANGED <<strategy, min_query_length, mIn, mOut, mOp, rvars, cvars, xvars>>

\* process_frame, direction != DOWNSTREAM
PushUpstream(frame, direction) ==
    /\ direction # DOWNSTREAM
    /\ log' = Append(log, Entry(frame, direction, <<>>, NoCall, last_context,
                                last_context, <<Push(frame, direction, last_context)>>))
    /\ UNCHANGED <<strategy, min_query_length, last_context, mIn, mOut, mOp, rvars, cvars, xvars>>

\* variant: the length test is made on the untrimmed text
IsShortQueryUntrimmed(frame) == Len(frame.text) < min_query_length

\* _handle_transcription: the test that skips short queries
IsShortQuery(frame) == Len(strip(frame.text)) < min_query_length

\* variant: an empty result leaves the slot as it is
RetrievedContextKeepsOnEmpty(outcome) ==
    IF outcome.kind = "return"
    THEN IF Len(outcome.documents) > 0
         THEN Some(format_context(outcome.documents))
         ELSE last_context
    ELSE None

\* _handle_transcription: the value the try/except block leaves in _last_context
RetrievedContext(outcome) ==
    IF outcome.kind = "return"
    THEN IF Len(outcome.documents) > 0
         THEN Some(format_context(outcome.documents))
         ELSE None
    ELSE None

\* variant: a new result is appended to an unconsumed context
HandleTranscriptionAppends(frame, direction, outcome) ==
    /\ direction = DOWNSTREAM
    /\ frame.type = "TranscriptionFrame"
    /\ LET text == strip(frame.text) IN
       IF Len(text) < min_query_length
       THEN /\ last_context' = last_context
            /\ log' = Append(log, Entry(frame, direction, <<>>, NoCall, last_context,
                                 last_context, <<Push(frame, direction, last_context)>>))
       ELSE LET new == IF outcome.kind = "return" /\ Len(outcome.documents) > 0
                       THEN Some(format_context(outcome.documents))
                       ELSE None
                ctx == IF Truthy(last_context) /\ new # None
                       THEN Some(last_context[1] \o "\n" \o new[1])
                       ELSE new
            IN  /\ last_context' = ctx
                /\ log' = Append(log, Entry(frame, direction, <<text>>, outcome,
                                     last_context, ctx, <<Push(frame, direction, ctx)>>))
    /\ UNCHANGED <<strategy, min_query_length, mIn, mOut, mOp, rvars, cvars, xvars>>

\* variant: the transcript is forwarded before the retrieval is made
HandleTranscriptionPushesFirst(frame, direction, outcome) ==
    /\ direction = DOWNSTREAM
    /\ frame.type = "TranscriptionFrame"
    /\ LET text == strip(frame.text) IN
       IF IsShortQuery(frame)
       THEN /\ last_context' = last_context
            /\ log' = Append(log, Entry(frame, direction, <<>>, NoCall, last_context,
                                 last_context, <<Push(frame, direction, last_context)>>))
       ELSE LET ctx == RetrievedContext(outcome) IN
            /\ last_context' = ctx
            /\ log' = Append(log, Entry(frame, direction, <<text>>, outcome, last_context,
                                 ctx, <<Push(frame, direction, last_context)>>))
    /\ UNCHANGED <<strategy, min_query_length, mIn, mOut, mOp, rvars, cvars, xvars>>

\* process_frame -> _handle_transcription
HandleTranscription(frame, direction, outcome) ==
    /\ direction = DOWNSTREAM
    /\ frame.type = "TranscriptionFrame"
    /\ LET text == strip(frame.text) IN
       IF IsShortQuery(frame)
       THEN /\ last_context' = last_context
            /\ log' = Append(log, Entry(frame, direction, <<>>, NoCall, last_context,
                                 last_context, <<Push(frame, direction, last_context)>>))
       ELSE LET ctx == RetrievedContext(outcome) IN
            /\ last_context' = ctx
            /\ log' = Append(log, Entry(frame, direction, <<text>>, outcome, last_context,
                                 ctx, <<Push(frame, direction, ctx)>>))
    /\ UNCHANGED <<strategy, min_query_length, mIn, mOut, mOp, rvars, cvars, xvars>>

\* _handle_llm_messages: the if/elif on self._strategy
MergeMessages(messages, ctx) ==
    IF strategy = AUGMENT_SYSTEM THEN _augment_system_message(messages, ctx)
    ELSE IF strategy = INJECT_CONTEXT THEN _inject_context_message(messages, ctx)
    ELSE messages

\* variant: the slot is not cleared after the merge
HandleLLMMessagesKeepsContext(frame, direction) ==
    /\ direction = DOWNSTREAM
    /\ frame.type = "LLMMessagesFrame"
    /\ IF ~Truthy(last_context)
       THEN /\ last_context' = last_context
            /\ log' = Append(log, Entry(frame, direction, <<>>, NoCall, last_context,
                                 last_context, <<Push(frame, direction, last_context)>>))
       ELSE LET messages == MergeMessages(frame.messages, last_context[1])
                augmented_frame == LLMMessagesFrame(0 - frame.id, messages)
            IN  /\ last_context' = last_context
                /\ log' = Append(log, Entry(frame, direction, <<>>, NoCall, last_context,
                                     last_context,
                                     <<Push(augmented_frame, direction, last_context)>>))
    /\ UNCHANGED <<strategy, min_query_length, mIn, mOut, mOp, rvars, cvars, xvars>>

\* variant: a new frame is built also when no context is pending
HandleLLMMessagesAlwaysNewFrame(frame, direction) ==
    /\ direction = DOWNSTREAM
    /\ frame.type = "LLMMessagesFrame"
    /\ LET messages == IF Truthy(last_context)
                       THEN MergeMessages(frame.messages, last_context[1])
                       ELSE frame.messages
           augmented_frame == LLMMessagesFrame(0 - frame.id, messages)
       IN  /\ last_context' = None
           /\ log' = Append(log, Entry(frame, direction, <<>>, NoCall, last_context,
                                None, <<Push(augmented_frame, direction, None)>>))
    /\ UNCHANGED <<strategy, min_query_length, mIn, mOut, mOp, rvars, cvars, xvars>>

\* process_frame -> _handle_llm_messages
HandleLLMMessages(frame, direction) ==
    /\ direction = DOWNSTREAM
    /\ frame.type = "LLMMessagesFrame"
    /\ IF ~Truthy(last_context)
       THEN /\ last_context' = last_context
            /\ log' = Append(log, Entry(frame, direction, <<>>, NoCall, last_context,
                                 last_context, <<Push(frame, direction, last_context)>>))
       ELSE LET messages == MergeMessages(frame.messages, last_context[1])
                augmented_frame == LLMMessagesFrame(0 - frame.id, messages)
            IN  /\ last_context' = None
                /\ log' = Append(log, Entry(frame, direction, <<>>, NoCall, last_context,
                                     None, <<Push(augmented_frame, direction, None)>>))
    /\ UNCHANGED <<strategy, min_query_length, mIn, mOut, mOp, rvars, cvars, xvars>>

\* process_frame, the final else: every other downstream frame
PassThrough(frame, direction) ==
    /\ direction = DOWNSTREAM
    /\ frame.type \notin {"TranscriptionFrame", "LLMMessagesFrame"}
    /\ log' = Append(log, Entry(frame, direction, <<>>, NoCall, last_context,
                                last_context, <<Push(frame, direction, last_context)>>))
    /\ UNCHANGED <<strategy, min_query_length, last_context, mIn, mOut, mOp, rvars, cvars, xvars>>

\* RAGContextProcessor.__init__ with one of the documented strategies
Init ==
    /\ strategy \in Strategies
    /\ min_query_length \in MinQueryLengths
    /\ last_context = None
    /\ log = <<>>
    /\ mIn = <<>>
    /\ mOut = <<>>
    /\ mOp = "none"
    /\ RetrieverUnused
    /\ SplitterUnused
    /\ OthersUnused

\* RAGContextProcessor.__init__ with any string as strategy
InitAnyStrategy ==
    /\ strategy \in Strategies \cup {OtherStrategy}
    /\ min_query_length \in MinQueryLengths
    /\ last_context = None
    /\ log = <<>>
    /\ mIn = <<>>
    /\ mOut = <<>>
    /\ mOp = "none"
    /\ RetrieverUnused
    /\ SplitterUnused
    /\ OthersUnused

\* the frames the pipeline hands to process_frame, one at a time
ProcessUpstreamFrame ==
    /\ Len(log) < MaxEvents
    /\ \E frame \in UpstreamFrames(Len(log) + 1), direction \in Directions :
          PushUpstream(frame, direction)

ProcessTranscriptionFrame ==
    /\ Len(log) < MaxEvents
    /\ \E frame \in IncomingFrames(Len(log) + 1), direction \in Directions :
          \E outcome \in RetrieveOutcomes : HandleTranscription(frame, direction, outcome)

ProcessLLMMessagesFrame ==
    /\ Len(log) < MaxEvents
    /\ \E frame \in IncomingFrames(Len(log) + 1), direction \in Directions :
          HandleLLMMessages(frame, direction)

ProcessOtherFrame ==
    /\ Len(log) < MaxEvents
    /\ \E frame \in IncomingFrames(Len(log) + 1), direction \in Directions :
          PassThrough(frame, direction)

Next ==
    \/ ProcessUpstreamFrame
    \/ ProcessTranscriptionFrame
    \/ ProcessLLMMessagesFrame
    \/ ProcessOtherFrame

Spec == Init /\ [][Next]_vars

SpecAnyStrategy == InitAnyStrategy /\ [][Next]_vars

-----------------------------------------------------------------------------
(* bot.main: the processor chain with RAG enabled *)

\* the processors list handed to Pipeline(), in order; frames travel
\* downstream from each processor to the next one
Processors ==
    <<"transport.input", "stt", "rag_processor", "user_aggregator", "llm", "tts",
      "simli", "transport.output", "assistant_aggregator">>

Position(stage) == CHOOSE i \in 1..Len(Processors) : Processors[i] = stage

\* the processor a downstream frame pushed by stage reaches next
NextProcessor(stage) == Processors[Position(stage) + 1]

\* LLMContext(messages, tools): the context starts with the system prompt
SystemInstruction == "Be nice."
InitialContext == <<Message("system", SystemInstruction)>>

InitPipeline ==
    /\ strategy = AUGMENT_SYSTEM
    /\ min_query_length \in MinQueryLengths
    /\ last_context = None
    /\ log = <<>>
    /\ mIn = <<>>
    /\ mOut = <<>>
    /\ mOp = "none"
    /\ RetrieverUnused
    /\ SplitterUnused
    /\ IngestUnused
    /\ TasksUnused
    /\ HeapUnused
    /\ pipeline = [context |-> InitialContext, consumed |-> 0, llm_in |-> <<>>]

\* the user aggregator takes the next frame the RAG stage pushed: a downstream
\* transcript is added to the context as a user message and the message batch
\* is pushed downstream, to the processor after the aggregator
UserAggregatorConsumes ==
    /\ NextProcessor("rag_processor") = "user_aggregator"
    /\ NextProcessor("user_aggregator") = "llm"
    /\ pipeline.consumed < Len(log)
    /\ LET i == pipeline.consumed + 1
           pushed == log[i].pushed[1]
       IN  IF pushed.direction = DOWNSTREAM /\ pushed.frame.type = "TranscriptionFrame"
           THEN LET messages == Append(pipeline.context,
                                       Message("user", pushed.frame.text))
                IN  pipeline' = [context |-> messages, consumed |-> i,
                                 llm_in |-> Append(pipeline.llm_in,
                                               [event |-> i, messages |-> messages])]
           ELSE pipeline' = [pipeline EXCEPT !.consumed = i]
    /\ UNCHANGED <<strategy, min_query_length, last_context, log, mIn, mOut, mOp,
                   rvars, cvars, ingest, tasks, heap>>

\* the frames that reach the RAG stage: transcripts and other frames from the
\* processors before it, and frames pushed upstream by the processors after it
NextPipeline ==
    \/ ProcessUpstreamFrame
    \/ ProcessTranscriptionFrame
    \/ ProcessOtherFrame
    \/ UserAggregatorConsumes

SpecPipeline == InitPipeline /\ [][NextPipeline]_vars

-----------------------------------------------------------------------------
(* process_frame as a coroutine: invocations that interleave at their awaits *)

MaxCoros == 3      \* process_frame invocations on one injector

\* frames and retrieval results of the interleaved invocations
CoroFrames(id) ==
    { TranscriptionFrame(id, "about foo"),
      LLMMessagesFrame(id, <<Message("user", "hi")>>),
      TextFrame(id, "hello") }
CoroOutcomes == {Returns(DocRanking), Returns(<<>>)}

\* a coroutine is suspended at `await super().process_frame(...)` ("super"),
\* suspended at its `await self.push_frame(...)` ("push"), or has returned;
\* after_push is the code that is left to run when push_frame returns
Coroutine(id, frame, direction) ==
    [id |-> id, frame |-> frame, direction |-> direction, pc |-> "super",
     after_push |-> "return"]

\* what the code between the two awaits does: the new value of the slot, the
\* invocation that filled it, the frame given to push_frame, the filler of
\* the context that was merged (if one was), and the code left after the push
Ran(slot, src, pushed, merged, after_push) ==
    [slot |-> slot, src |-> src, pushed |-> pushed, merged |-> merged,
     after_push |-> after_push]

\* variant: the slot is cleared after the awaited push_frame, not before it
BodyClearsAfterPush(c, outcome) ==
    LET pass == Ran(last_context, tasks.src, c.frame, None, "return") IN
    IF c.direction # DOWNSTREAM THEN pass
    ELSE IF c.frame.type = "TranscriptionFrame"
    THEN IF Len(strip(c.frame.text)) < min_query_length THEN pass
         ELSE Ran(RetrievedContext(outcome), c.id, c.frame, None, "return")
    ELSE IF c.frame.type = "LLMMessagesFrame"
    THEN IF ~Truthy(last_context) THEN pass
         ELSE Ran(last_context, tasks.src,
                  LLMMessagesFrame(0 - c.frame.id,
                                   MergeMessages(c.frame.messages, last_context[1])),
                  Some(tasks.src), "clear")
    ELSE pass

\* process_frame from the return of super().process_frame to the await of
\* push_frame: no await in between (retrieve_sync is a plain call)
Body(c, outcome) ==
    LET pass == Ran(last_context, tasks.src, c.frame, None, "return") IN
    IF c.direction # DOWNSTREAM THEN pass
    ELSE IF c.frame.type = "TranscriptionFrame"
    THEN IF Len(strip(c.frame.text)) < min_query_length THEN pass
         ELSE Ran(RetrievedContext(outcome), c.id, c.frame, None, "return")
    ELSE IF c.frame.type = "LLMMessagesFrame"
    THEN IF ~Truthy(last_context) THEN pass
         ELSE Ran(None, tasks.src,
                  LLMMessagesFrame(0 - c.frame.id,
                                   MergeMessages(c.frame.messages, last_context[1])),
                  Some(tasks.src), "return")
    ELSE pass

InitCoros ==
    /\ strategy \in Strategies
    /\ min_query_length = 8
    /\ last_context = None
    /\ log = <<>>
    /\ mIn = <<>>
    /\ mOut = <<>>
    /\ mOp = "none"
    /\ RetrieverUnused
    /\ SplitterUnused
    /\ IngestUnused
    /\ PipelineUnused
    /\ HeapUnused
    /\ tasks = [coros |-> <<>>, out |-> <<>>, src |-> 0, merges |-> <<>>]

\* process_frame is called: the coroutine runs to its first await
CallProcessFrame ==
    /\ Len(tasks.coros) < MaxCoros
    /\ \E frame \in CoroFrames(Len(tasks.coros) + 1), direction \in Directions :
          tasks' = [tasks EXCEPT
                       !.coros = Append(@, Coroutine(Len(@) + 1, frame, direction))]
    /\ UNCHANGED <<strategy, min_query_length, last_context, log, mIn, mOut, mOp,
                   rvars, cvars, ingest, pipeline, heap>>

\* a coroutine suspended at the first await runs on to its push_frame
ResumeBody ==
    /\ \E k \in 1..Len(tasks.coros), outcome \in CoroOutcomes :
          /\ tasks.coros[k].pc = "super"
          /\ LET ran == Body(tasks.coros[k], outcome) IN
             /\ last_context' = ran.slot
             /\ tasks' = [coros |-> [tasks.coros EXCEPT ![k].pc = "push",
                                                        ![k].after_push = ran.after_push],
                          out |-> Append(tasks.out, [by |-> k, frame |-> ran.pushed]),
                          src |-> ran.src,
                          merges |-> IF ran.merged = None THEN tasks.merges
                                     ELSE Append(tasks.merges,
                                                 [by |-> k, src |-> ran.merged[1]])]
    /\ UNCHANGED <<strategy, min_query_length, log, mIn, mOut, mOp,
                   rvars, cvars, ingest, pipeline, heap>>

\* push_frame returns: the coroutine runs the code after it and returns
ResumeAfterPush ==
    /\ \E k \in 1..Len(tasks.coros) :
          /\ tasks.coros[k].pc = "push"
          /\ last_context' = IF tasks.coros[k].after_push = "clear" THEN None
                             ELSE last_context
          /\ tasks' = [tasks EXCEPT !.coros[k].pc = "done"]
    /\ UNCHANGED <<strategy, min_query_length, log, mIn, mOut, mOp,
                   rvars, cvars, ingest, pipeline, heap>>

NextCoros == CallProcessFrame \/ ResumeBody \/ ResumeAfterPush

SpecCoros == InitCoros /\ [][NextCoros]_vars

-----------------------------------------------------------------------------
(* _handle_llm_messages on Python objects: lists and dicts with identity *)

\* an object of the heap: a list of references or a message dict; the
\* address of an object is its index in the sequence of objects
ListObject(items) == [kind |-> "list", items |-> items, role |-> "", content |-> ""]
DictObject(role, content) == [kind |-> "dict", items |-> <<>>, role |-> role, content |-> content]

\* the objects a message list is made of: its dicts, then the list itself
ObjectsOf(messages) ==
    [i \in 1..Len(messages) |-> DictObject(messages[i].role, messages[i].content)]
    \o <<ListObject([i \in 1..Len(messages) |-> i])>>

\* the messages a list object refers to, as values
Deref(objs, ref) ==
    [i \in 1..Len(objs[ref].items) |->
        Message(objs[objs[ref].items[i]].role, objs[objs[ref].items[i]].content)]

\* the result of a statement: the heap after it and the reference it gives
Ref(objs, ref) == [objs |-> objs, ref |-> ref]

\* variant: messages = frame.messages, the list is not copied
ListAlias(objs, ref) ==
    IF Len(objs[ref].items) > 0
    THEN Ref(objs, ref)
    ELSE Ref(Append(objs, ListObject(<<>>)), Len(objs) + 1)

\* list(frame.messages) if frame.messages else []: a new list object that
\* refers to the same dicts
ListCopy(objs, ref) ==
    IF Len(objs[ref].items) > 0
    THEN Ref(Append(objs, ListObject(objs[ref].items)), Len(objs) + 1)
    ELSE Ref(Append(objs, ListObject(<<>>)), Len(objs) + 1)

\* _augment_system_message, the loop from item i on: augmented is the
\* address of the list being built
RECURSIVE AugmentHeapLoop(_, _, _, _, _, _)
AugmentHeapLoop(objs, items, i, augmented, system_found, ctx) ==
    IF i > Len(items)
    THEN IF system_found THEN Ref(objs, augmented)
         ELSE LET context == Len(objs) + 1
                  objs1 == Append(objs, DictObject("system", ctx))
              IN  Ref([objs1 EXCEPT ![augmented].items = Insert(@, 0, context)],
                      augmented)
    ELSE LET msg == items[i] IN
         IF objs[msg].role = "system" /\ ~system_found
         THEN LET copy == Len(objs) + 1
                  objs1 == Append(objs, DictObject(objs[msg].role,
                                         objs[msg].content \o "\n\n" \o ctx))
              IN  AugmentHeapLoop([objs1 EXCEPT ![augmented].items = Append(@, copy)],
                                  items, i + 1, augmented, TRUE, ctx)
         ELSE AugmentHeapLoop([objs EXCEPT ![augmented].items = Append(@, msg)],
                              items, i + 1, augmented, system_found, ctx)

\* _augment_system_message(messages) on the heap
AugmentOnHeap(objs, messages, ctx) ==
    AugmentHeapLoop(Append(objs, ListObject(<<>>)), objs[messages].items, 1,
                    Len(objs) + 1, FALSE, ctx)

\* _inject_context_message(messages) on the heap: messages.insert changes the
\* list object it is given
InjectOnHeap(objs, messages, ctx) ==
    LET insert_idx == InsertIdx(Deref(objs, messages))
        context_message == Len(objs) + 1
        objs1 == Append(objs, DictObject("system", ContextTag \o ctx))
    IN  Ref([objs1 EXCEPT ![messages].items = Insert(@, insert_idx, context_message)],
            messages)

\* _handle_llm_messages on a frame whose messages attribute is the list at
\* address frame.messages
HandleLLMMessagesOnHeap ==
    /\ heap.pushed = None
    /\ IF ~Truthy(last_context)
       THEN /\ heap' = [heap EXCEPT !.pushed = Some(heap.frame)]
            /\ UNCHANGED last_context
       ELSE LET copied == ListCopy(heap.objs, heap.frame.messages)
                merged == IF strategy = AUGMENT_SYSTEM
                          THEN AugmentOnHeap(copied.objs, copied.ref, last_context[1])
                          ELSE IF strategy = INJECT_CONTEXT
                          THEN InjectOnHeap(copied.objs, copied.ref, last_context[1])
                          ELSE copied
            IN  /\ heap' = [heap EXCEPT
                               !.objs = merged.objs,
                               !.pushed = Some([id |-> 0 - heap.frame.id,
                                                messages |-> merged.ref])]
                /\ last_context' = None
    /\ UNCHANGED <<strategy, min_query_length, log, mIn, mOut, mOp,
                   rvars, cvars, ingest, pipeline, tasks>>

InitHeap ==
    /\ strategy \in Strategies
    /\ min_query_length = 10
    /\ last_context \in {None} \cup {Some(c) : c \in Contexts}
    /\ log = <<>>
    /\ mIn = <<>>
    /\ mOut = <<>>
    /\ mOp = "none"
    /\ RetrieverUnused
    /\ SplitterUnused
    /\ IngestUnused
    /\ PipelineUnused
    /\ TasksUnused
    /\ \E messages \in MessageLists :
          heap = [objs |-> ObjectsOf(messages), before |-> ObjectsOf(messages),
                  frame |-> [id |-> 1, messages |-> Len(messages) + 1],
                  context |-> last_context, pushed |-> None]

NextHeap == HandleLLMMessagesOnHeap

SpecHeap == InitHeap /\ [][NextHeap]_vars

-----------------------------------------------------------------------------
(* The merge strategies applied on their own to a message list *)

InitMerge ==
    /\ strategy \in Strategies
    /\ min_query_length \in MinQueryLengths
    /\ last_context \in {Some(c) : c \in Contexts}
    /\ log = <<>>
    /\ mIn \in MessageLists
    /\ mOut = <<>>
    /\ mOp = "none"
    /\ RetrieverUnused
    /\ SplitterUnused
    /\ OthersUnused

ApplyAugmentSystem ==
    /\ mOp = "none"
    /\ mOut' = _augment_system_message(mIn, last_context[1])
    /\ mOp' = "augment"
    /\ UNCHANGED <<strategy, min_query_length, last_context, log, mIn, rvars, cvars, xvars>>

ApplyInjectContext ==
    /\ mOp = "none"
    /\ mOut' = _inject_context_message(mIn, last_context[1])
    /\ mOp' = "inject"
    /\ UNCHANGED <<strategy, min_query_length, last_context, log, mIn, rvars, cvars, xvars>>

NextMerge == ApplyAugmentSystem \/ ApplyInjectContext

SpecMerge == InitMerge /\ [][NextMerge]_vars

-----------------------------------------------------------------------------
(* Vocabulary of the properties *)

Events == 1..Len(log)

\* a downstream transcript
IsTranscript(i) ==
    /\ log[i].frame.type = "TranscriptionFrame"
    /\ log[i].direction = DOWNSTREAM

\* the length of the whitespace-trimmed text of transcript i
TrimmedLen(i) == Len(strip(log[i].frame.text))

\* a retrieval-triggering transcript: downstream and long enough
IsRetrieval(i) == IsTranscript(i) /\ TrimmedLen(i) >= min_query_length

\* a downstream LLMMessagesFrame
IsLLM(i) ==
    /\ log[i].frame.type = "LLMMessagesFrame"
    /\ log[i].direction = DOWNSTREAM

HasHits(i) == log[i].outcome.kind = "return" /\ Len(log[i].outcome.documents) > 0

\* the context formatted from the result of retrieval i
ContextOf(i) == format_context(log[i].outcome.documents)

NoneBetween(P(_), i, k) == \A x \in (i + 1)..(k - 1) : ~P(x)

\* the event forwarded exactly the frame it was given, in its own direction
ForwardedSame(i) ==
    /\ Len(log[i].pushed) = 1
    /\ log[i].pushed[1].frame = log[i].frame
    /\ log[i].pushed[1].direction = log[i].direction

\* the event forwarded one new frame carrying the message list msgs
ForwardedNew(i, msgs) ==
    /\ Len(log[i].pushed) = 1
    /\ log[i].pushed[1].frame.id # log[i].frame.id
    /\ log[i].pushed[1].frame.type = "LLMMessagesFrame"
    /\ log[i].pushed[1].frame.messages = msgs
    /\ log[i].pushed[1].direction = log[i].direction

\* some message of the batch forwarded by event i contains the text t
BatchContains(i, t) ==
    \E p \in 1..Len(log[i].pushed) :
        \E m \in 1..Len(log[i].pushed[p].frame.messages) :
            Contains(log[i].pushed[p].frame.messages[m].content, t)

\* the slot after the latest event is the value that event left
SlotIsLastAfter == Len(log) > 0 => last_context = log[Len(log)].after

\* the batch that merging ctx into msgs gives under the configured strategy
Merged(msgs, ctx) ==
    IF strategy = AUGMENT_SYSTEM
    THEN LET sys == {x \in 1..Len(msgs) : msgs[x].role = "system"} IN
         IF sys = {} THEN <<Message("system", ctx)>> \o msgs
         ELSE LET f == CHOOSE x \in sys : \A y \in sys : x <= y
              IN  [msgs EXCEPT ![f].content = @ \o "\n\n" \o ctx]
    ELSE LET before == {x \in 1..Len(msgs) : \A y \in 1..x : msgs[y].role # "user"}
             sysb == {x \in before : msgs[x].role = "system"}
             at == IF sysb = {} THEN 0 ELSE CHOOSE x \in sysb : \A y \in sysb : y <= x
         IN  SubSeq(msgs, 1, at) \o <<Message("system", ContextTag \o ctx)>>
                 \o SubSeq(msgs, at + 1, Len(msgs))

-----------------------------------------------------------------------------
(* C1 *)

\* C1: last-query-wins.  When retrievals R1 then R2 are handled with no
\* LLMMessagesFrame between them, and M is the next LLMMessagesFrame after R2
\* (R2 being the latest retrieval before M), M is forwarded merged with the
\* context formatted from R2's result, or forwarded as it is when R2 returned
\* no hit or raised; text of R1's result that is not also text of R2's result
\* does not appear in the forwarded batch.
LastQueryWins ==
    \A i \in Events : \A j \in Events : \A k \in Events :
        ( /\ i < j /\ j < k
          /\ IsRetrieval(i) /\ IsRetrieval(j) /\ IsLLM(k)
          /\ NoneBetween(IsLLM, i, k)
          /\ NoneBetween(IsRetrieval, j, k) )
        => /\ IF HasHits(j)
              THEN /\ ForwardedNew(k, Merged(log[k].frame.messages, ContextOf(j)))
                   /\ BatchContains(k, ContextOf(j))
              ELSE ForwardedSame(k)
           /\ (HasHits(i) /\ ~(HasHits(j) /\ Contains(ContextOf(j), ContextOf(i))))
                  => ~BatchContains(k, ContextOf(i))

\* R1 and R2 both returned hits, with different contexts, and M was forwarded
LastQueryWinsWitness ==
    \E i \in Events : \E j \in Events : \E k \in Events :
        /\ i < j /\ j < k
        /\ IsRetrieval(i) /\ IsRetrieval(j) /\ IsLLM(k)
        /\ NoneBetween(IsLLM, i, k)
        /\ NoneBetween(IsRetrieval, j, k)
        /\ HasHits(i) /\ HasHits(j)
        /\ ~Contains(ContextOf(j), ContextOf(i))
        /\ BatchContains(k, ContextOf(j))

-----------------------------------------------------------------------------
(* C2 *)

\* C2: destructive consumption.  When a retrieval with at least one hit is
\* followed by two LLMMessagesFrames with no retrieval in between, the first
\* is forwarded as a new batch merged with the context and leaves the slot
\* None, and the second is forwarded as it is, without the context.
ConsumedByFirstOnly ==
    \A i \in Events : \A j \in Events : \A k \in Events :
        ( /\ i < j /\ j < k
          /\ IsRetrieval(i) /\ HasHits(i) /\ IsLLM(j) /\ IsLLM(k)
          /\ NoneBetween(IsRetrieval, i, k)
          /\ NoneBetween(IsLLM, i, j)
          /\ NoneBetween(IsLLM, j, k) )
        => /\ ForwardedNew(j, Merged(log[j].frame.messages, ContextOf(i)))
           /\ BatchContains(j, ContextOf(i))
           /\ log[j].after = None
           /\ log[k].before = None
           /\ ForwardedSame(k)
           /\ ~BatchContains(k, ContextOf(i))
           /\ log[k].after = None

\* a retrieval with hits, then two LLMMessagesFrames, the first one augmented
ConsumedByFirstOnlyWitness ==
    \E i \in Events : \E j \in Events : \E k \in Events :
        /\ i < j /\ j < k
        /\ IsRetrieval(i) /\ HasHits(i) /\ IsLLM(j) /\ IsLLM(k)
        /\ NoneBetween(IsRetrieval, i, k)
        /\ NoneBetween(IsLLM, i, j)
        /\ NoneBetween(IsLLM, j, k)
        /\ Len(log[k].frame.messages) > 0
        /\ BatchContains(j, ContextOf(i))

-----------------------------------------------------------------------------
(* C3 *)

\* C3: short-query bypass.  A downstream TranscriptionFrame whose trimmed
\* text is shorter than min_query_length causes no retriever call, leaves
\* the pending context (present or absent) as it was, and is forwarded as
\* the same frame.
ShortQueryBypass ==
    /\ SlotIsLastAfter
    /\ \A i \in Events :
          (IsTranscript(i) /\ TrimmedLen(i) < min_query_length)
          => /\ Len(log[i].queries) = 0
             /\ log[i].after = log[i].before
             /\ ForwardedSame(i)

\* a transcript that is short only once trimmed arrived while a context was
\* pending
ShortQueryBypassWitness ==
    \E i \in Events :
        /\ IsTranscript(i)
        /\ TrimmedLen(i) < min_query_length
        /\ Len(log[i].frame.text) >= min_query_length
        /\ Truthy(log[i].before)

-----------------------------------------------------------------------------
(* C4 *)

-----------------------------------------------------------------------------
(* C9 *)

\* C9: idle pass-through.  An LLMMessagesFrame that arrives while no context
\* is pending is forwarded as the very same frame, message list untouched,
\* and the slot stays None.
IdlePassThrough ==
    /\ SlotIsLastAfter
    /\ \A i \in Events :
          (IsLLM(i) /\ log[i].before = None)
          => /\ ForwardedSame(i)
             /\ log[i].pushed[1].frame.messages = log[i].frame.messages
             /\ log[i].after = None

\* an LLMMessagesFrame with messages arrived while the slot was None
IdlePassThroughWitness ==
    \E i \in Events :
        /\ IsLLM(i)
        /\ log[i].before = None
        /\ Len(log[i].frame.messages) > 0
        /\ Len(log[i].pushed) = 1

-----------------------------------------------------------------------------
(* C10 *)

\* C10: for every retrieval-triggering transcript, the slot becomes
\* format_context(hits) when the retrieval returned at least one hit, and
\* None when it returned no hit or raised, whatever the slot held before;
\* in the latter case the next LLMMessagesFrame is forwarded as it is.
RetrievalSetsSlot ==
    /\ SlotIsLastAfter
    /\ \A j \in Events :
          IsRetrieval(j)
          => /\ Len(log[j].queries) = 1
             /\ log[j].outcome.kind \in {"return", "raise"}
             /\ log[j].after = IF HasHits(j) THEN Some(ContextOf(j)) ELSE None
             /\ ~HasHits(j) =>
                   \A k \in Events :
                       ( /\ j < k /\ IsLLM(k)
                         /\ NoneBetween(IsRetrieval, j, k)
                         /\ NoneBetween(IsLLM, j, k) )
                       => ForwardedSame(k)

\* a retrieval raised while an earlier context was pending, and an
\* LLMMessagesFrame followed
RetrievalSetsSlotWitness ==
    \E j \in Events : \E k \in Events :
        /\ IsRetrieval(j)
        /\ Truthy(log[j].before)
        /\ log[j].outcome.kind = "raise"
        /\ j < k /\ IsLLM(k)
        /\ NoneBetween(IsRetrieval, j, k)
        /\ Len(log[k].pushed) = 1

-----------------------------------------------------------------------------
(* Vocabulary of the merge properties *)

\* the pending context the strategy was applied with
PendingContext == last_context[1]

SystemPositions(msgs) == {x \in 1..Len(msgs) : msgs[x].role = "system"}
UserPositions(msgs) == {x \in 1..Len(msgs) : msgs[x].role = "user"}

Least(S) == CHOOSE x \in S : \A y \in S : x <= y
Greatest(S) == CHOOSE x \in S : \A y \in S : y <= x

\* msgs without the message at position p
Without(msgs, p) == SubSeq(msgs, 1, p - 1) \o SubSeq(msgs, p + 1, Len(msgs))

\* the message inject-context adds
ContextMessage == Message("system", ContextTag \o PendingContext)

\* 0-based indices at which mOut holds the added message, mIn being the rest
InsertedAt == {p \in 0..Len(mIn) : mOut = Insert(mIn, p, ContextMessage)}

\* length of the contiguous leading run of system-role messages
LeadingSystemRun(msgs) ==
    Cardinality({x \in 1..Len(msgs) : \A y \in 1..x : msgs[y].role = "system"})

\* 0-based index of the first user-role message, or the end of the list
BeforeFirstUser(msgs) ==
    IF UserPositions(msgs) = {} THEN Len(msgs) ELSE Least(UserPositions(msgs)) - 1

-----------------------------------------------------------------------------
(* C5 *)

\* C5: augment-system on a list that has a system-role message returns a
\* list of the same length in which the first system-role message has the
\* content original \o "\n\n" \o context and every other message, later
\* system-role messages included, is the input message at that position.
AugmentExistingSystem ==
    (mOp = "augment" /\ SystemPositions(mIn) # {})
    => LET f == Least(SystemPositions(mIn)) IN
       /\ Len(mOut) = Len(mIn)
       /\ mOut[f] = Message("system", mIn[f].content \o "\n\n" \o PendingContext)
       /\ \A x \in 1..Len(mIn) : x # f => mOut[x] = mIn[x]

\* augment-system was applied to a list with two system-role messages
AugmentExistingSystemWitness ==
    /\ mOp = "augment"
    /\ Cardinality(SystemPositions(mIn)) >= 2
    /\ Least(SystemPositions(mIn)) > 1

-----------------------------------------------------------------------------
(* C6 *)

\* C6: augment-system on a list without system-role message, the empty list
\* included, returns the input with the message {system, context} inserted
\* at index 0.
AugmentNoSystem ==
    (mOp = "augment" /\ SystemPositions(mIn) = {})
    => mOut = <<Message("system", PendingContext)>> \o mIn

\* augment-system was applied to a non-empty list without system message
AugmentNoSystemWitness ==
    /\ mOp = "augment"
    /\ SystemPositions(mIn) = {}
    /\ Len(mIn) >= 2
    /\ Len(mOut) = Len(mIn) + 1

-----------------------------------------------------------------------------
(* C7 *)

\* C7 as stated: inject-context inserts the context message at the index one
\* past the leading run of system-role messages, which is the index right
\* before the first user-role message, or the end of the list when there is
\* no user-role message.
InjectAtLeadingRun ==
    mOp = "inject"
    => /\ InsertedAt = {LeadingSystemRun(mIn)}
       /\ InsertedAt = {BeforeFirstUser(mIn)}

\* C7 as amended: inject-context inserts the context message at the index
\* one past the last system-role message that precedes the first user-role
\* message (index 0 when there is none); when every message before the first
\* user-role message (every message, when there is no user-role message) is
\* system-role, that index is one past the leading system run, which is the
\* index right before the first user-role message or the end of the list.
InjectAfterLastLeadingSystem ==
    mOp = "inject"
    => LET u == BeforeFirstUser(mIn)
           sysb == {x \in SystemPositions(mIn) : x <= u}
       IN  /\ InsertedAt = {IF sysb = {} THEN 0 ELSE Greatest(sysb)}
           /\ (\A x \in 1..u : mIn[x].role = "system")
                 => /\ InsertedAt = {LeadingSystemRun(mIn)}
                    /\ InsertedAt = {u}

\* inject-context was applied to a list with an assistant-role message, then
\* a system-role message, before the first user-role message
InjectAfterLastLeadingSystemWitness ==
    /\ mOp = "inject"
    /\ Len(mIn) >= 3
    /\ mIn[1].role = "assistant"
    /\ mIn[2].role = "system"
    /\ mIn[3].role = "user"
    /\ InsertedAt = {2}

-----------------------------------------------------------------------------
(* C8 *)

\* C8: inject-context returns a list with exactly one more message; the
\* added message is {system, tag \o context}; taking it out gives the input
\* list, every message unchanged and in the same order.
InjectAddsOneMessage ==
    mOp = "inject"
    => /\ Len(mOut) = Len(mIn) + 1
       /\ \E p \in 1..Len(mOut) :
             /\ mOut[p] = Message("system", "[Retrieved Context]\n" \o PendingContext)
             /\ Without(mOut, p) = mIn

\* inject-context was applied to a list of mixed roles
InjectAddsOneMessageWitness ==
    /\ mOp = "inject"
    /\ Len(mIn) >= 2
    /\ SystemPositions(mIn) # {}
    /\ UserPositions(mIn) # {}
    /\ Len(mOut) = Len(mIn) + 1

-----------------------------------------------------------------------------
(* C11 *)

\* C11: every downstream TranscriptionFrame is forwarded exactly once, as the
\* same frame (same text, same direction), whether the query was too short,
\* the retrieval returned hits, returned none or raised; when a retrieval is
\* made, the frame is forwarded after the call has returned and the slot has
\* been written.
TranscriptForwardedOnce ==
    \A i \in Events :
        IsTranscript(i)
        => /\ ForwardedSame(i)
           /\ log[i].pushed[1].frame.text = log[i].frame.text
           /\ log[i].pushed[1].ctx = log[i].after
           /\ IsRetrieval(i) => Len(log[i].queries) = 1

\* transcripts of all four kinds were handled: too short, hits, no hit, raise
\* (the last three each changing the slot)
TranscriptForwardedOnceWitness ==
    /\ \E i \in Events : IsTranscript(i) /\ ~IsRetrieval(i) /\ Len(log[i].pushed) = 1
    /\ \E i \in Events :
          /\ IsRetrieval(i) /\ HasHits(i)
          /\ log[i].before # log[i].after /\ Len(log[i].pushed) = 1
    /\ \E i \in Events :
          /\ IsRetrieval(i) /\ ~HasHits(i)
          /\ log[i].before # log[i].after /\ Len(log[i].pushed) = 1

-----------------------------------------------------------------------------
(* C12 *)

\* C12: a downstream frame that is neither a TranscriptionFrame nor an
\* LLMMessagesFrame, and a frame of any kind that does not travel downstream,
\* is forwarded as the same frame in its own direction, with no retriever
\* call and the pending context left as it was.
OtherFramesUntouched ==
    /\ SlotIsLastAfter
    /\ \A i \in Events :
          ( \/ log[i].direction # DOWNSTREAM
            \/ log[i].frame.type \notin {"TranscriptionFrame", "LLMMessagesFrame"} )
          => /\ ForwardedSame(i)
             /\ Len(log[i].queries) = 0
             /\ log[i].after = log[i].before

\* while a context was pending, an upstream LLMMessagesFrame, an upstream
\* TranscriptionFrame long enough to trigger a retrieval, or a downstream
\* TextFrame was handled
OtherFramesUntouchedWitness ==
    \E i \in Events : \E j \in Events :
        /\ i # j
        /\ Truthy(log[i].before)
        /\ log[i].direction = UPSTREAM
        /\ log[i].frame.type = "LLMMessagesFrame"
        /\ Len(log[i].pushed) = 1
        /\ \/ /\ log[j].direction = UPSTREAM
              /\ log[j].frame.type = "TranscriptionFrame"
              /\ TrimmedLen(j) >= min_query_length
           \/ /\ log[j].direction = DOWNSTREAM
              /\ log[j].frame.type = "TextFrame"

-----------------------------------------------------------------------------
(* C13 *)

\* the batch forwarded for LLMMessagesFrame k carries the pending context
Augmented(k) ==
    IsLLM(k) /\ Truthy(log[k].before) /\ BatchContains(k, log[k].before[1])

\* C13: each retrieval result is merged into at most one forwarded batch:
\* between two augmented batches there is a retrieval that returned hits,
\* and an augmented batch carries the context of the latest retrieval before
\* it; so the augmented batches are never more than the retrievals with hits.
MergedAtMostOnce ==
    /\ \A k \in Events :
          Augmented(k)
          => \E j \in 1..(k - 1) :
                /\ IsRetrieval(j) /\ HasHits(j)
                /\ NoneBetween(IsRetrieval, j, k)
                /\ NoneBetween(Augmented, j, k)
                /\ log[k].before = Some(ContextOf(j))
    /\ Cardinality({k \in Events : Augmented(k)})
          <= Cardinality({j \in Events : IsRetrieval(j) /\ HasHits(j)})

\* a retrieval with hits was followed by two LLMMessagesFrames
MergedAtMostOnceWitness ==
    \E j \in Events : \E k \in Events : \E l \in Events :
        /\ j < k /\ k < l
        /\ IsRetrieval(j) /\ HasHits(j)
        /\ Augmented(k)
        /\ IsLLM(l)
        /\ Len(log[l].pushed) = 1

-----------------------------------------------------------------------------
(* Vocabulary of the retriever properties *)

IsRetrieveCall == rcall.op = "retrieve_sync"
IsAddCall == rcall.op = "add_documents"

\* the latest retrieve_sync call searched the table and filtered the rows
Filtered == IsRetrieveCall /\ rcall.searches = 1 /\ rcall.failure = "none"

\* the hit retrieve_sync builds from a row of the store
HitOf(row) ==
    [id |-> row.id, content |-> row.content,
     similarity |-> Rat(1, 1 + row._distance)]

\* 1 / (1 + d) >= t, for a distance d >= 0 and a fraction t
PassesThreshold(d, t) == t.den >= t.num * (1 + d)

\* a is b with some elements left out
RECURSIVE IsSubsequence(_, _)
IsSubsequence(a, b) ==
    IF Len(a) = 0 THEN TRUE
    ELSE IF Len(b) = 0 THEN FALSE
    ELSE IF a[1] = b[1] THEN IsSubsequence(Tail(a), Tail(b))
    ELSE IsSubsequence(a, Tail(b))

\* the rows the latest add_documents call wrote: the tail of the table
WrittenRecords ==
    SubSeq(table[1], Len(table[1]) - Len(rcall.documents) + 1, Len(table[1]))

-----------------------------------------------------------------------------
(* C14 *)

\* C14: retrieve_sync never raises: when embed_text or the store search
\* raises, the call returns the empty list.
RetrieveNeverRaises ==
    IsRetrieveCall
    => /\ rcall.result.kind = "return"
       /\ rcall.failure # "none" => rcall.result.value = <<>>

\* embed_text raised, or the search raised, on a table that holds rows
RetrieveNeverRaisesWitness ==
    /\ IsRetrieveCall
    /\ rcall.failure = "embed"
    /\ table # None
    /\ Len(table[1]) > 0
    /\ rcall.result.value = <<>>

-----------------------------------------------------------------------------
(* C15 *)

\* C15: a row the store returned with distance d is in the result if and
\* only if 1 / (1 + d) >= threshold (the threshold the call filters with), a
\* row whose similarity equals the threshold included; each hit carries the
\* similarity 1 / (1 + d).
ThresholdInclusive ==
    Filtered
    => LET rows == rcall.rows
           hits == rcall.result.value
           kept == {i \in 1..Len(rows) : PassesThreshold(rows[i]._distance, rcall.threshold)}
       IN  /\ Len(hits) = Cardinality(kept)
           /\ \A i \in 1..Len(rows) :
                 (i \in kept) <=> (\E h \in 1..Len(hits) : hits[h] = HitOf(rows[i]))
           /\ \A h \in 1..Len(hits) : \E i \in kept : hits[h] = HitOf(rows[i])

\* the store returned a row whose similarity equals the threshold, which was
\* kept, and a row below the threshold, which was not
ThresholdInclusiveWitness ==
    /\ Filtered
    /\ \E i \in 1..Len(rcall.rows) :
          /\ Rat(1, 1 + rcall.rows[i]._distance) = rcall.threshold
          /\ \E h \in 1..Len(rcall.result.value) :
                rcall.result.value[h] = HitOf(rcall.rows[i])
    /\ \E i \in 1..Len(rcall.rows) :
          ~PassesThreshold(rcall.rows[i]._distance, rcall.threshold)

-----------------------------------------------------------------------------
(* C16 *)

\* C16: the list retrieve_sync returns is the rows of the store search with
\* some left out, in the order of the search, none twice; it has at most
\* limit elements (the limit the search was made with); the store returning
\* rows by ascending distance, the hits are in descending similarity.
OrderPreserved ==
    Filtered
    => LET hits == rcall.result.value
           rows == rcall.rows
       IN  /\ IsSubsequence(hits, [i \in 1..Len(rows) |-> HitOf(rows[i])])
           /\ Len(hits) <= rcall.limit
           /\ \A h \in 1..(Len(hits) - 1) :
                 RatGeq(hits[h].similarity, hits[h + 1].similarity)

\* the table holds more rows than the limit, and two hits of different
\* similarity were returned
OrderPreservedWitness ==
    /\ Filtered
    /\ Len(table[1]) > rcall.limit
    /\ Len(rcall.result.value) >= 2
    /\ rcall.result.value[1].similarity # rcall.result.value[2].similarity

-----------------------------------------------------------------------------
(* C17 *)

-----------------------------------------------------------------------------
(* C18 *)

\* C18: within one add_documents call, a record given a synthetic id has an
\* id different from the id of every other record of the batch, records
\* whose id the caller supplied included.
SyntheticIdsDistinct ==
    (IsAddCall /\ rcall.result.kind = "return" /\ Len(rcall.documents) > 0)
    => \A i \in 1..Len(rcall.documents) : \A j \in 1..Len(rcall.documents) :
          (i # j /\ rcall.documents[i].id = None)
          => WrittenRecords[i].id # WrittenRecords[j].id

-----------------------------------------------------------------------------
(* C19 *)

\* C19: no two records of the store have the same id, after any sequence of
\* add_documents calls.
StoreIdsUnique ==
    table # None
    => \A i \in 1..Len(table[1]) : \A j \in 1..Len(table[1]) :
          i # j => table[1][i].id # table[1][j].id

-----------------------------------------------------------------------------
(* C20 *)

\* C20: split_into_chunks(text, max_chars) returns only chunks of length
\* <= max_chars, a single paragraph longer than max_chars being cut to the
\* budget.
ChunksWithinBudget ==
    cOut # None => \A c \in 1..Len(cOut[1]) : Len(cOut[1][c]) <= cMax

-----------------------------------------------------------------------------
(* C21, C27 *)

\* the documents the source directory of the run yields
Yield == read_markdown_files(ingest.dir, ingest.max_chars)

\* C21: when the ingestion script is run on a source directory that yields
\* zero documents, it creates the output location and ends with exit status
\* 0, without any embedding or append.
EmptyIngestSucceeds ==
    (ingest.pc = "exited" /\ Len(Yield) = 0) =>
        /\ ingest.output_exists
        /\ ingest.exit = Some(0)
        /\ ingest.embeds = 0
        /\ ingest.appends = 0

\* the documents of the result that come from the entry named name
DocumentsOf(name) ==
    SelectSeq(ingest.documents[1], LAMBDA d : d.metadata.source = name)

\* C27: every file with non-blank text gives one document per chunk, in chunk
\* order, with id stem (one chunk) or stem_index (several, index from 0),
\* chunk_index 0..total-1 and total_chunks the number of chunks; blank files
\* (and entries that are not readable files) give no document.
OneDocumentPerChunk ==
    (ingest.pc = "read" /\ ingest.dir # None) =>
        LET files == ingest.dir[1] IN
        /\ \A d \in 1..Len(ingest.documents[1]) :
              \E f \in 1..Len(files) :
                  ingest.documents[1][d].metadata.source = files[f].name
        /\ \A f \in 1..Len(files) :
              LET docs == DocumentsOf(files[f].name)
                  chunks == split_into_chunks(files[f].content, ingest.max_chars)
              IN  IF files[f].kind = "file" /\ strip(files[f].content) # ""
                  THEN /\ Len(docs) = Len(chunks)
                       /\ Len(docs) >= 1
                       /\ \A i \in 1..Len(docs) :
                             /\ docs[i].content = chunks[i]
                             /\ docs[i].metadata.chunk_index = i - 1
                             /\ docs[i].metadata.total_chunks = Len(chunks)
                             /\ docs[i].id =
                                  IF Len(chunks) = 1 THEN files[f].stem
                                  ELSE files[f].stem \o "_" \o ToString(i - 1)
                  ELSE Len(docs) = 0

\* a file of several chunks next to a blank file has been read
OneDocumentPerChunkWitness ==
    /\ ingest # None
    /\ ingest.pc = "read"
    /\ ingest.dir # None
    /\ Len(ingest.dir[1]) = 2
    /\ ingest.dir[1][1].kind = "file"
    /\ ingest.dir[1][1].content = " \n"
    /\ ingest.dir[1][2].kind = "file"
    /\ Len(ingest.documents[1]) = 3
    /\ ingest.documents[1][3].id = ingest.dir[1][2].stem \o "_2"

-----------------------------------------------------------------------------
(* C24, C25, C26 *)

\* C24: a limit or threshold supplied to retrieve_sync, 0 included, is the
\* one the search and the filter use; the defaults of the instance are used
\* only for the arguments the caller left out.
PerCallOverridesGovern ==
    Filtered
    => /\ rcall.limit = IF rcall.match_count = None THEN match_count
                        ELSE rcall.match_count[1]
       /\ rcall.threshold = IF rcall.match_threshold = None THEN match_threshold
                            ELSE rcall.match_threshold[1]

\* C25: the retriever is constructed although its table is missing or cannot
\* be opened; while no non-empty add_documents has returned, the table is
\* None, document_count is 0 and retrieve_sync returns [] without calling the
\* embedding provider or the store; once one has returned the table exists
\* and retrieve_sync searches it.
ReadEmptyState ==
    /\ rcall.op = "__init__" => table = None /\ document_count = 0
    /\ added = 0 <=> table = None
    /\ table = None => document_count = 0
    /\ (IsRetrieveCall /\ table = None)
       => /\ rcall.result = Returned(<<>>)
          /\ rcall.embeds = 0
          /\ rcall.searches = 0
    /\ (IsAddCall /\ rcall.result.kind = "return" /\ rcall.result.value > 0)
       => table # None
    /\ (IsRetrieveCall /\ table # None /\ rcall.failure # "embed")
       => rcall.searches = 1

\* retrieve_sync was called on the retriever while it had no table
ReadEmptyStateWitness ==
    /\ IsRetrieveCall
    /\ table = None
    /\ rcall.embeds = 0
    /\ rcall.result = Returned(<<>>)

IsFormatCall == rcall.op = "format_context"

-----------------------------------------------------------------------------
(* C30 *)

\* the trimmed non-empty paragraphs of a text, in order
RECURSIVE TrimmedParagraphs(_)
TrimmedParagraphs(paragraphs) ==
    IF Len(paragraphs) = 0 THEN <<>>
    ELSE LET para == strip(paragraphs[1])
         IN  (IF para = "" THEN <<>> ELSE <<para>>) \o TrimmedParagraphs(Tail(paragraphs))

\* the pieces of the chunks, split on blank lines, in chunk order
RECURSIVE PiecesOf(_)
PiecesOf(chunks) ==
    IF Len(chunks) = 0 THEN <<>>
    ELSE SplitParagraphs(chunks[1]) \o PiecesOf(Tail(chunks))

\* C30: for a text longer than max_chars with a non-blank paragraph, the
\* chunks split on blank lines and put end to end are the trimmed non-empty
\* paragraphs of the text, in order, each once; no chunk is empty.
ChunksKeepParagraphs ==
    (cOut # None /\ Len(cText) > cMax
        /\ Len(TrimmedParagraphs(SplitParagraphs(cText))) > 0)
    => /\ PiecesOf(cOut[1]) = TrimmedParagraphs(SplitParagraphs(cText))
       /\ \A c \in 1..Len(cOut[1]) : cOut[1][c] # ""

\* a text of three paragraphs was split in two chunks, the first of them
\* made of two paragraphs
ChunksKeepParagraphsWitness ==
    /\ cOut # None
    /\ Len(cText) > cMax
    /\ Len(TrimmedParagraphs(SplitParagraphs(cText))) = 3
    /\ Len(cOut[1]) = 2
    /\ Contains(cOut[1][1], "\n\n")

-----------------------------------------------------------------------------
(* C23 *)

\* C23: in the pipeline of bot.main with RAG enabled, when a transcript passes
\* the RAG stage and its retrieval returns a hit, the message batch delivered
\* to the LLM for that turn contains the formatted context, and the cache of
\* the injector is cleared then.
ContextReachesLLM ==
    \A b \in 1..Len(pipeline.llm_in) :
        LET i == pipeline.llm_in[b].event
            messages == pipeline.llm_in[b].messages
        IN  (IsRetrieval(i) /\ HasHits(i))
            => /\ \E m \in 1..Len(messages) : Contains(messages[m].content, ContextOf(i))
               /\ (pipeline.consumed = Len(log) /\ i = Len(log)) => last_context = None

-----------------------------------------------------------------------------
(* C28 *)

\* C28: also when process_frame invocations interleave at their awaits, a
\* pending context is merged into at most one LLMMessagesFrame.
MergedOnceInterleaved ==
    \A a, b \in 1..Len(tasks.merges) :
        a # b => tasks.merges[a].src # tasks.merges[b].src

\* two LLMMessagesFrame invocations were suspended at the first await
\* together while a context was pending; one merged it, the other found the
\* slot empty, and both are now at their push_frame
MergedOnceInterleavedWitness ==
    /\ Len(tasks.coros) = 3
    /\ tasks.coros[1].frame.type = "TranscriptionFrame"
    /\ tasks.coros[2].frame.type = "LLMMessagesFrame"
    /\ tasks.coros[3].frame.type = "LLMMessagesFrame"
    /\ tasks.coros[2].direction = DOWNSTREAM
    /\ tasks.coros[3].direction = DOWNSTREAM
    /\ tasks.coros[2].pc = "push"
    /\ tasks.coros[3].pc = "push"
    /\ Len(tasks.merges) = 1
    /\ tasks.merges[1].by = 3
    /\ Len(tasks.out) = 3
    /\ tasks.out[2].by = 3
    /\ tasks.out[3].by = 2

-----------------------------------------------------------------------------
(* C29 *)

\* C29: under both strategies a merge leaves the message list of the
\* incoming frame and each of its message objects as they were, and the
\* augmented batch is forwarded in a new frame whose list is a copy.
MergeLeavesInputUnchanged ==
    (heap.pushed # None /\ Truthy(heap.context))
    => /\ \A a \in 1..Len(heap.before) : heap.objs[a] = heap.before[a]
       /\ heap.pushed[1].id # heap.frame.id
       /\ heap.pushed[1].messages # heap.frame.messages
       /\ heap.pushed[1].messages > Len(heap.before)
       /\ Deref(heap.objs, heap.frame.messages) = Deref(heap.before, heap.frame.messages)
       /\ Deref(heap.objs, heap.pushed[1].messages) =
              MergeMessages(Deref(heap.before, heap.frame.messages), heap.context[1])

\* a context was injected as a message of its own into a list that holds a
\* system message and a user message
MergeLeavesInputUnchangedWitness ==
    /\ heap.pushed # None
    /\ Truthy(heap.context)
    /\ strategy = INJECT_CONTEXT
    /\ Len(heap.before) = 3
    /\ heap.before[1].role = "system"
    /\ heap.before[2].role = "user"
    /\ Len(heap.objs[heap.pushed[1].messages].items) = 3

====
